---- MODULE Spec2Model ----
(***************************************************************************)
(* A model of src/main.cc: the two request handlers of the example server  *)
(* (MyHandler on a plain Http::Endpoint, and StatsEndpoint with its        *)
(* /record/:name and /value/:name routes over the metrics vector), the     *)
(* per-request response and timeout objects they drive, and the worker     *)
(* pool that runs them.                                                    *)
(*                                                                         *)
(* Spec        : the endpoint main() starts, StatsEndpoint with the router *)
(*               handler installed (main.cc:157).                          *)
(* SpecHello   : an endpoint with MyHandler installed as its Http::Handler.*)
(* SpecMonitor : a LoadMonitor, its owner and its run() thread.            *)
(* SpecMain    : main() from its arguments to the serving endpoint.        *)
(*                                                                         *)
(* The Response, Timeout and dispatch classes of the library are not in    *)
(* main.cc; their behaviour is taken from the written specification.       *)
(***************************************************************************)
EXTENDS Integers, Sequences, FiniteSets, TLC

\* ------------------------------------------------------------------ bounds
MaxReqs == 3

\* Requests sent to the endpoint that runs MyHandler.
MaxHelloReqs == 2

\* Number of metric names requests may use.
Names == {"x", "y"}

\* Values a read through the end() iterator may yield (UB, main.cc:201).
GarbageInts == {-1, 0, 12}

\* ------------------------------------------------------- program constants
\* Endpoint::options().threads(1)
threads2 == 1 + 1
threads == 1

Ok == 200
Created == 201
Not_Found == 404
Request_Timeout == 408
Internal_Server_Error == 500

ReqIds == 1 .. MaxReqs

NoReq == [method |-> "-", resource |-> << >>, chunked |-> FALSE, body |-> ""]

\* Requests sent to the StatsEndpoint: both routes for every name, and
\* requests with the wrong method, another literal or another segment count.
Rq(m, p) == [method |-> m, resource |-> p, chunked |-> FALSE, body |-> ""]

StatsRequests ==
    {Rq("POST", <<"record", n>>) : n \in Names}
        \cup {Rq("GET", <<"value", n>>) : n \in Names}
        \cup {Rq("GET", <<"record", "x">>), Rq("POST", <<"value", "x">>),
              Rq("POST", <<"record">>), Rq("GET", <<"value", "x", "y">>),
              Rq("POST", <<"other", "x">>)}

VARIABLES
    req,        \* req[r]: the decoded request r, NoReq before it arrives
    pc,         \* pc[r]: position of request r in its dispatch / handler
    ip,         \* ip[r]: index of the next call of MyHandler::onRequest
    it,         \* it[r]: the iterator find_if returned (Len+1 is end())
    old,        \* old[r]: the local `old` of Metric::incr
    rstate,     \* rstate[r]: Pending / Sending / Complete
    wire,       \* wire[r]: what was written on response r, in order
    hdrs,       \* hdrs[r]: headers set on response r
    tstate,     \* tstate[r]: Unarmed / Armed / Fired / Cancelled
    deadline,   \* deadline[r]: seconds the timeout was armed with (0: never)
    tpc,        \* tpc[r]: position of the timeout callback of request r
    calls,      \* calls[r]: number of invocations of onTimeout for r
    log,        \* log[r]: diagnostics printed about request r
    metrics,    \* std::vector<Metric> metrics
    crashed,    \* the process died (access through end())
    inflight,   \* greatest number of requests that were in flight at once
    lm,         \* the LoadMonitor object and its run() thread
    proc        \* main(): its arguments, locals and position

vars == <<req, pc, ip, it, old, rstate, wire, hdrs, tstate, deadline, tpc,
          calls, log, metrics, crashed, inflight, lm, proc>>
requestVars == <<req, pc, ip, it, old, rstate, wire, hdrs, tstate, deadline,
                 tpc, calls, log, metrics, inflight>>

respVars == <<rstate, wire, tstate>>
timerVars == <<deadline, tpc, calls>>
localVars == <<ip, it, old>>

\* ---------------------------------------------------------------- helpers
Digit(d) ==
    CASE d = 0 -> "0" [] d = 1 -> "1" [] d = 2 -> "2" [] d = 3 -> "3"
      [] d = 4 -> "4" [] d = 5 -> "5" [] d = 6 -> "6" [] d = 7 -> "7"
      [] d = 8 -> "8" [] d = 9 -> "9"

RECURSIVE ToDigits(_)
ToDigits(n) == IF n < 10 THEN Digit(n) ELSE ToDigits(n \div 10) \o Digit(n % 10)

\* std::to_string(int)
to_string(v) == IF v < 0 THEN "-" \o ToDigits(0 - v) ELSE ToDigits(v)

\* A constructor that stores one less than initialValue.
MetricFromZero(name, initialValue) == [name |-> name, value |-> initialValue - 1]

\* Metric(name, initialValue)
Metric(name, initialValue) == [name |-> name, value |-> initialValue]

\* Metric::incr: value_ += n, on the value read into `old`
incr2(value_, n) == value_ + n + n
incr(value_, n) == value_ + n

\* std::find_if over metrics by name; Len(ms) + 1 stands for std::end
find_if(ms, name) ==
    IF \E i \in 1 .. Len(ms) : ms[i].name = name
    THEN CHOOSE i \in 1 .. Len(ms) :
            /\ ms[i].name = name
            /\ \A j \in 1 .. (i - 1) : ms[j].name # name
    ELSE Len(ms) + 1

\* Requests that hold a worker: dispatched and not yet returned.
Terminal == {"done", "failed", "unmatched"}
Running == {r \in ReqIds : pc[r] \notin ({"none", "queued"} \cup Terminal)}
InFlight == {r \in ReqIds : pc[r] \notin ({"none"} \cup Terminal)}

\* ------------------------------------------------- Response (library part)
Written(r, op, code, body) ==
    [wire EXCEPT ![r] = Append(@, [op |-> op, code |-> code, body |-> body])]

\* Completion cancels an armed timeout.
Disarm(r) == [tstate EXCEPT ![r] = IF @ = "Armed" THEN "Cancelled" ELSE @]

\* Response::send on a response that can still take it
SendOk(r, code, body) ==
    /\ rstate[r] = "Pending"
    /\ rstate' = [rstate EXCEPT ![r] = "Complete"]
    /\ wire' = Written(r, "send", code, body)
    /\ tstate' = Disarm(r)

\* Response::stream on a response that can still take it: Pending -> Sending
StreamOk(r, code) ==
    /\ rstate[r] = "Pending"
    /\ rstate' = [rstate EXCEPT ![r] = "Sending"]
    /\ wire' = Written(r, "stream", code, "")
    /\ UNCHANGED tstate

\* A write on an open stream
WriteOk(r, data) ==
    /\ rstate[r] = "Sending"
    /\ wire' = Written(r, "write", 0, data)
    /\ UNCHANGED <<rstate, tstate>>

\* The end of an open stream: Sending -> Complete
EndOk(r) ==
    /\ rstate[r] = "Sending"
    /\ rstate' = [rstate EXCEPT ![r] = "Complete"]
    /\ wire' = Written(r, "ends", 0, "")
    /\ tstate' = Disarm(r)

\* Failure raised out of a handler, caught at the dispatch boundary: logged,
\* and answered with a server error if nothing was sent yet.
CaughtLogOnly(r, what) ==
    /\ pc' = [pc EXCEPT ![r] = "failed"]
    /\ log' = [log EXCEPT ![r] = @ \cup {what}]
    /\ UNCHANGED respVars

Caught(r, what) ==
    /\ pc' = [pc EXCEPT ![r] = "failed"]
    /\ log' = [log EXCEPT ![r] = @ \cup {what}]
    /\ IF rstate[r] = "Pending"
       THEN SendOk(r, Internal_Server_Error, what)
       ELSE UNCHANGED respVars

\* A send or stream call on a response in the wrong state: usage error.
Misuse(r) == Caught(r, "Response has already been sent")

\* --------------------------------------------------------------- Init, I/O
\* ----------------------------------------------------- LoadMonitor, main
\* LoadMonitor::interval, seconds (constructor, line 91)
interval == 1

\* Loads are fixed-point numbers: Unit stands for 1 (percent), so the
\* smallest step is 0.0000001.
Unit == 10000000

\* Net::Tcp::Listener::Load old, before any snapshot was stored in it
NoLoad == [global |-> 0]

\* main() constructs no LoadMonitor.
NoMonitor ==
    [owner |-> "none", shutdown_ |-> FALSE, pc |-> "nothread", bound |-> FALSE,
     pending |-> 0, old |-> NoLoad, cout |-> << >>, slept |-> 0,
     ticked |-> FALSE]

\* Net::Port port(9080); int thr = 2;
DefaultPort == 9080
DefaultThr == 2

\* main() run without arguments, after stats.start().
Serving ==
    [pc |-> "serving", argv |-> << >>, port |-> DefaultPort, thr |-> DefaultThr,
     workers |-> threads, cout |-> << >>]

InitRequests ==
    /\ req = [r \in ReqIds |-> NoReq]
    /\ pc = [r \in ReqIds |-> "none"]
    /\ ip = [r \in ReqIds |-> 0]
    /\ it = [r \in ReqIds |-> 0]
    /\ old = [r \in ReqIds |-> 0]
    /\ rstate = [r \in ReqIds |-> "Pending"]
    /\ wire = [r \in ReqIds |-> << >>]
    /\ hdrs = [r \in ReqIds |-> {}]
    /\ tstate = [r \in ReqIds |-> "Unarmed"]
    /\ deadline = [r \in ReqIds |-> 0]
    /\ tpc = [r \in ReqIds |-> "idle"]
    /\ calls = [r \in ReqIds |-> 0]
    /\ log = [r \in ReqIds |-> {}]
    /\ metrics = << >>
    /\ crashed = FALSE
    /\ inflight = 0

\* The process main() has brought up: the endpoint serving, no LoadMonitor.
Init ==
    /\ InitRequests
    /\ lm = NoMonitor
    /\ proc = Serving

\* The transport engine hands over the next decoded request.
Arrive(r, q) ==
    /\ ~crashed
    /\ pc[r] = "none"
    /\ \A p \in 1 .. (r - 1) : pc[p] # "none"
    /\ req' = [req EXCEPT ![r] = q]
    /\ pc' = [pc EXCEPT ![r] = "queued"]
    /\ inflight' = IF Cardinality(InFlight) + 1 > inflight
                   THEN Cardinality(InFlight) + 1 ELSE inflight
    /\ UNCHANGED <<localVars, respVars, hdrs, timerVars, log, metrics, crashed>>
    /\ UNCHANGED <<lm, proc>>

\* Route tables that ignore the method, and that send both paths to
\* doRecordMetric.
RouteAnyMethod(q) ==
    IF Len(q.resource) = 2 /\ q.resource[1] = "record"
    THEN "doRecordMetric"
    ELSE IF Len(q.resource) = 2 /\ q.resource[1] = "value"
    THEN "doGetMetric"
    ELSE "NoMatch"

RouteValueRecords(q) ==
    IF Len(q.resource) = 2 /\ q.resource[1] \in {"record", "value"}
    THEN "doRecordMetric"
    ELSE "NoMatch"

\* ------------------------------------------------------- StatsEndpoint
\* setupRoutes: Routes::Post "/record/:name", Routes::Get "/value/:name"
Route(q) ==
    IF q.method = "POST" /\ Len(q.resource) = 2 /\ q.resource[1] = "record"
    THEN "doRecordMetric"
    ELSE IF q.method = "GET" /\ Len(q.resource) = 2 /\ q.resource[1] = "value"
    THEN "doGetMetric"
    ELSE "NoMatch"

\* request.param(":name").as<std::string>()
param(q) == q.resource[2]

\* A free worker takes a queued request and the router picks its handler.
RouterDispatch(r) ==
    /\ ~crashed
    /\ pc[r] = "queued"
    /\ Cardinality(Running) < threads
    /\ pc' = [pc EXCEPT ![r] =
                CASE Route(req[r]) = "doRecordMetric" -> "rec_find"
                  [] Route(req[r]) = "doGetMetric" -> "get_find"
                  [] OTHER -> "unmatched"]
    /\ UNCHANGED <<req, localVars, respVars, hdrs, timerVars, log, metrics,
                   crashed, inflight>>
    /\ UNCHANGED <<lm, proc>>

\* doRecordMetric, lines 174-179: find_if and the test against end
doRecordMetricFind(r) ==
    /\ ~crashed
    /\ pc[r] = "rec_find"
    /\ it' = [it EXCEPT ![r] = find_if(metrics, param(req[r]))]
    /\ pc' = [pc EXCEPT ![r] =
                IF find_if(metrics, param(req[r])) = Len(metrics) + 1
                THEN "rec_push" ELSE "rec_incr"]
    /\ UNCHANGED <<req, ip, old, respVars, hdrs, timerVars, log, metrics,
                   crashed, inflight>>
    /\ UNCHANGED <<lm, proc>>

\* doRecordMetric, lines 180-181: push_back(Metric(name, 1)); send(Created)
doRecordMetricCreate(r) ==
    /\ ~crashed
    /\ pc[r] = "rec_push"
    /\ metrics' = Append(metrics, Metric(param(req[r]), 1))
    /\ IF rstate[r] = "Pending"
       THEN /\ SendOk(r, Created, "")
            /\ pc' = [pc EXCEPT ![r] = "done"]
            /\ UNCHANGED log
       ELSE Misuse(r)
    /\ UNCHANGED <<req, localVars, hdrs, timerVars, crashed, inflight>>
    /\ UNCHANGED <<lm, proc>>

\* Metric::incr, line 214: int old = value_
doRecordMetricRead(r) ==
    /\ ~crashed
    /\ pc[r] = "rec_incr"
    /\ old' = [old EXCEPT ![r] = metrics[it[r]].value]
    /\ pc' = [pc EXCEPT ![r] = "rec_write"]
    /\ UNCHANGED <<req, ip, it, respVars, hdrs, timerVars, log, metrics,
                   crashed, inflight>>
    /\ UNCHANGED <<lm, proc>>

\* Metric::incr, line 215, and doRecordMetric line 186:
\* value_ += n; send(Ok, to_string(metric.value()))
doRecordMetricIncr(r) ==
    /\ ~crashed
    /\ pc[r] = "rec_write"
    /\ metrics' = [metrics EXCEPT ![it[r]].value = incr(old[r], 1)]
    /\ IF rstate[r] = "Pending"
       THEN /\ SendOk(r, Ok, to_string(metrics'[it[r]].value))
            /\ pc' = [pc EXCEPT ![r] = "done"]
            /\ UNCHANGED log
       ELSE Misuse(r)
    /\ UNCHANGED <<req, localVars, hdrs, timerVars, crashed, inflight>>
    /\ UNCHANGED <<lm, proc>>

\* doGetMetric, lines 192-195: find_if
doGetMetricFind(r) ==
    /\ ~crashed
    /\ pc[r] = "get_find"
    /\ it' = [it EXCEPT ![r] = find_if(metrics, param(req[r]))]
    /\ pc' = [pc EXCEPT ![r] = "get_test"]
    /\ UNCHANGED <<req, ip, old, respVars, hdrs, timerVars, log, metrics,
                   crashed, inflight>>
    /\ UNCHANGED <<lm, proc>>

\* doGetMetric, lines 197-199: if (it == end) send(Not_Found); no return follows
doGetMetricNotFound(r) ==
    /\ ~crashed
    /\ pc[r] = "get_test"
    /\ IF it[r] = Len(metrics) + 1
       THEN IF rstate[r] = "Pending"
            THEN /\ SendOk(r, Not_Found, "")
                 /\ pc' = [pc EXCEPT ![r] = "get_send"]
                 /\ UNCHANGED log
            ELSE Misuse(r)
       ELSE /\ pc' = [pc EXCEPT ![r] = "get_send"]
            /\ UNCHANGED <<respVars, log>>
    /\ UNCHANGED <<req, localVars, hdrs, timerVars, metrics, crashed, inflight>>
    /\ UNCHANGED <<lm, proc>>

\* doGetMetric, lines 201-202: metric = *it; send(Ok, to_string(metric.value()))
\* With it == end the read is undefined: the process dies, or some int is read.
doGetMetricSend(r) ==
    /\ ~crashed
    /\ pc[r] = "get_send"
    /\ \/ /\ it[r] <= Len(metrics)
          /\ crashed' = crashed
          /\ IF rstate[r] = "Pending"
             THEN /\ SendOk(r, Ok, to_string(metrics[it[r]].value))
                  /\ pc' = [pc EXCEPT ![r] = "done"]
                  /\ UNCHANGED log
             ELSE Misuse(r)
       \/ /\ it[r] > Len(metrics)
          /\ crashed' = TRUE
          /\ UNCHANGED <<pc, respVars, log>>
       \/ /\ it[r] > Len(metrics)
          /\ crashed' = crashed
          /\ \E g \in GarbageInts :
                IF rstate[r] = "Pending"
                THEN /\ SendOk(r, Ok, to_string(g))
                     /\ pc' = [pc EXCEPT ![r] = "done"]
                     /\ UNCHANGED log
                ELSE Misuse(r)
    /\ UNCHANGED <<req, localVars, hdrs, timerVars, metrics, inflight>>
    /\ UNCHANGED <<lm, proc>>

Next ==
    \/ \E r \in ReqIds : \E q \in StatsRequests : Arrive(r, q)
    \/ \E r \in ReqIds : RouterDispatch(r)
    \/ \E r \in ReqIds : doRecordMetricFind(r)
    \/ \E r \in ReqIds : doRecordMetricCreate(r)
    \/ \E r \in ReqIds : doRecordMetricRead(r)
    \/ \E r \in ReqIds : doRecordMetricIncr(r)
    \/ \E r \in ReqIds : doGetMetricFind(r)
    \/ \E r \in ReqIds : doGetMetricNotFound(r)
    \/ \E r \in ReqIds : doGetMetricSend(r)

Spec == Init /\ [][Next]_vars

\* ------------------------------------------------------------- MyHandler
\* Requests sent to an endpoint that runs MyHandler: every branch of
\* onRequest, taken and not taken.
Hq(m, p, c, b) == [method |-> m, resource |-> p, chunked |-> c, body |-> b]

HelloRequests ==
    {Hq("GET", <<"ping">>, TRUE, ""), Hq("GET", <<"ping">>, FALSE, ""),
     Hq("POST", <<"ping">>, TRUE, ""),
     Hq("POST", <<"echo">>, FALSE, "hi"), Hq("GET", <<"echo">>, FALSE, "hi"),
     Hq("GET", <<"exception">>, FALSE, ""),
     Hq("GET", <<"timeout">>, FALSE, ""), Hq("POST", <<"timeout">>, FALSE, ""),
     Hq("GET", <<"static">>, FALSE, ""), Hq("POST", <<"static">>, FALSE, ""),
     Hq("GET", <<"other">>, FALSE, "")}

Call(op, code, arg) == [op |-> op, code |-> code, arg |-> arg]

\* onRequest, lines 30-50: the /ping branch
PingCallsArmLast(q) ==
    IF q.method = "GET" THEN
        (IF q.chunked
         THEN <<Call("headers", 0, ""), Call("stream", Ok, ""),
                Call("write", 0, "PO"), Call("write", 0, "NG"),
                Call("ends", 0, "")>>
         ELSE << >>) \o <<Call("arm", 2, "")>>
    ELSE << >>

PingCallsArmAnyMethod(q) ==
    <<Call("arm", 2, "")>> \o
    (IF q.method = "GET" /\ q.chunked
     THEN <<Call("headers", 0, ""), Call("stream", Ok, ""),
            Call("write", 0, "PO"), Call("write", 0, "NG"),
            Call("ends", 0, "")>>
     ELSE << >>)

\* /ping branches that set the headers after opening the stream, and that
\* arm only under the chunked flag.
PingCallsHeadersLate(q) ==
    IF q.method = "GET" THEN
        <<Call("arm", 2, "")>> \o
        (IF q.chunked
         THEN <<Call("stream", Ok, ""), Call("headers", 0, ""),
                Call("write", 0, "PO"), Call("write", 0, "NG"),
                Call("ends", 0, "")>>
         ELSE << >>)
    ELSE << >>

PingCallsArmChunkedOnly(q) ==
    IF q.method = "GET" /\ q.chunked
    THEN <<Call("arm", 2, ""), Call("headers", 0, ""), Call("stream", Ok, ""),
           Call("write", 0, "PO"), Call("write", 0, "NG"), Call("ends", 0, "")>>
    ELSE << >>

PingCalls(q) ==
    IF q.method = "GET" THEN
        <<Call("arm", 2, "")>> \o
        (IF q.chunked
         THEN <<Call("headers", 0, ""), Call("stream", Ok, ""),
                Call("write", 0, "PO"), Call("write", 0, "NG"),
                Call("ends", 0, "")>>
         ELSE << >>)
    ELSE << >>

\* An /echo branch that answers every method.
EchoCallsAnyMethod(q) == <<Call("send", Ok, q.body)>>

\* onRequest, lines 53-55: the /echo branch
EchoCalls(q) ==
    IF q.method = "POST" THEN <<Call("send", Ok, q.body)>> ELSE << >>

\* onRequest, line 58: the /exception branch
ExceptionCallsNoThrow(q) == << >>

ExceptionCalls(q) == <<Call("throw", 0, "Exception thrown in the handler")>>

\* onRequest, line 61: the /timeout branch
TimeoutCallsArm2(q) == <<Call("arm", 2, "")>>

TimeoutCalls(q) == <<Call("arm", 5, "")>>

\* onRequest, lines 72-76: the /static branch
StaticCalls(q) ==
    IF q.method = "GET" THEN <<Call("serveFile", 0, "README.md")>> ELSE << >>

\* MyHandler::onRequest: the calls it makes on (response, timeout) for
\* request q, in program order.
onRequest(q) ==
    IF q.resource = <<"ping">> THEN PingCalls(q)
    ELSE IF q.resource = <<"echo">> THEN EchoCalls(q)
    ELSE IF q.resource = <<"exception">> THEN ExceptionCalls(q)
    ELSE IF q.resource = <<"timeout">> THEN TimeoutCalls(q)
    ELSE IF q.resource = <<"static">> THEN StaticCalls(q)
    ELSE << >>

\* The call request r is about to make, if its handler is running.
At(r, op) ==
    /\ ~crashed
    /\ pc[r] = "run"
    /\ ip[r] <= Len(onRequest(req[r]))
    /\ onRequest(req[r])[ip[r]].op = op

Cur(r) == onRequest(req[r])[ip[r]]

Step(r) ==
    /\ ip' = [ip EXCEPT ![r] = @ + 1]
    /\ UNCHANGED <<pc, log>>

\* A free worker takes a queued request and calls onRequest.
HandlerDispatch(r) ==
    /\ ~crashed
    /\ pc[r] = "queued"
    /\ Cardinality(Running) < threads
    /\ pc' = [pc EXCEPT ![r] = "run"]
    /\ ip' = [ip EXCEPT ![r] = 1]
    /\ UNCHANGED <<req, it, old, respVars, hdrs, timerVars, log, metrics,
                   crashed, inflight>>
    /\ UNCHANGED <<lm, proc>>

\* timeout.arm(seconds): Unarmed -> Armed, a one-shot timer is scheduled
Arm(r) ==
    /\ At(r, "arm")
    /\ tstate' = [tstate EXCEPT ![r] = IF @ = "Unarmed" THEN "Armed" ELSE @]
    /\ deadline' = [deadline EXCEPT ![r] = Cur(r).code]
    /\ Step(r)
    /\ UNCHANGED <<req, it, old, rstate, wire, hdrs, tpc, calls, metrics,
                   crashed, inflight>>
    /\ UNCHANGED <<lm, proc>>

\* response.headers().add<Server>().add<ContentType>()
SetHeaders(r) ==
    /\ At(r, "headers")
    /\ hdrs' = [hdrs EXCEPT ![r] =
                  IF rstate[r] = "Pending"
                  THEN @ \cup {"Server", "Content-Type"} ELSE @]
    /\ Step(r)
    /\ UNCHANGED <<req, it, old, respVars, timerVars, metrics, crashed, inflight>>
    /\ UNCHANGED <<lm, proc>>

\* response.stream(code): Pending -> Sending
StreamOpen(r) ==
    /\ At(r, "stream")
    /\ IF rstate[r] = "Pending"
       THEN StreamOk(r, Cur(r).code) /\ Step(r)
       ELSE Misuse(r) /\ UNCHANGED ip
    /\ UNCHANGED <<req, it, old, hdrs, timerVars, metrics, crashed, inflight>>
    /\ UNCHANGED <<lm, proc>>

\* stream << "..."
StreamWrite(r) ==
    /\ At(r, "write")
    /\ IF rstate[r] = "Sending"
       THEN WriteOk(r, Cur(r).arg) /\ Step(r)
       ELSE Misuse(r) /\ UNCHANGED ip
    /\ UNCHANGED <<req, it, old, hdrs, timerVars, metrics, crashed, inflight>>
    /\ UNCHANGED <<lm, proc>>

\* stream << ends: Sending -> Complete
StreamEnd(r) ==
    /\ At(r, "ends")
    /\ IF rstate[r] = "Sending"
       THEN EndOk(r) /\ Step(r)
       ELSE Misuse(r) /\ UNCHANGED ip
    /\ UNCHANGED <<req, it, old, hdrs, timerVars, metrics, crashed, inflight>>
    /\ UNCHANGED <<lm, proc>>

\* response.send(Ok, req.body(), MIME(Text, Plain))
Send(r) ==
    /\ At(r, "send")
    /\ IF rstate[r] = "Pending"
       THEN /\ SendOk(r, Cur(r).code, Cur(r).arg)
            /\ hdrs' = [hdrs EXCEPT ![r] = @ \cup {"Content-Type"}]
            /\ Step(r)
       ELSE Misuse(r) /\ UNCHANGED <<ip, hdrs>>
    /\ UNCHANGED <<req, it, old, timerVars, metrics, crashed, inflight>>
    /\ UNCHANGED <<lm, proc>>

\* throw std::runtime_error(...)
Throw(r) ==
    /\ At(r, "throw")
    /\ Caught(r, Cur(r).arg)
    /\ UNCHANGED <<req, localVars, hdrs, timerVars, metrics, crashed, inflight>>
    /\ UNCHANGED <<lm, proc>>

\* Http::serveFile(response, "README.md"): 200 with the file, or not found
ServeFile(r) ==
    /\ At(r, "serveFile")
    /\ IF rstate[r] = "Pending"
       THEN /\ \E found \in BOOLEAN :
                 IF found THEN SendOk(r, Ok, Cur(r).arg)
                          ELSE SendOk(r, Not_Found, "")
            /\ Step(r)
       ELSE Misuse(r) /\ UNCHANGED ip
    /\ UNCHANGED <<req, it, old, hdrs, timerVars, metrics, crashed, inflight>>
    /\ UNCHANGED <<lm, proc>>

\* onRequest returns to the dispatcher.
Return(r) ==
    /\ ~crashed
    /\ pc[r] = "run"
    /\ ip[r] > Len(onRequest(req[r]))
    /\ pc' = [pc EXCEPT ![r] = "done"]
    /\ UNCHANGED <<req, localVars, respVars, hdrs, timerVars, log, metrics,
                   crashed, inflight>>
    /\ UNCHANGED <<lm, proc>>

\* The timer of request r elapses while the response is not Complete:
\* Armed -> Fired, and the timeout callback is invoked.
TimerElapse(r) ==
    /\ ~crashed
    /\ tstate[r] = "Armed"
    /\ rstate[r] # "Complete"
    /\ tstate' = [tstate EXCEPT ![r] = "Fired"]
    /\ tpc' = [tpc EXCEPT ![r] = "call"]
    /\ calls' = [calls EXCEPT ![r] = @ + 1]
    /\ UNCHANGED <<req, pc, localVars, rstate, wire, hdrs, deadline, log,
                   metrics, crashed, inflight>>
    /\ UNCHANGED <<lm, proc>>

\* ExceptionPrinter::operator()
ExceptionPrinter(what) == "An exception occured: " \o what

\* Position of a timeout callback that has returned: the state it found the
\* response in when it called send.
Met(state) == "met " \o state

\* MyHandler::onTimeout: response.send(Request_Timeout, "Timeout")
\*     .then([](ssize_t) {}, ExceptionPrinter())
onTimeout(r) ==
    /\ ~crashed
    /\ tpc[r] = "call"
    /\ tpc' = [tpc EXCEPT ![r] = Met(rstate[r])]
    /\ IF rstate[r] = "Pending"
       THEN /\ SendOk(r, Request_Timeout, "Timeout")
            /\ UNCHANGED log
       ELSE /\ log' = [log EXCEPT ![r] =
                         @ \cup {ExceptionPrinter("Response has already been sent")}]
            /\ UNCHANGED respVars
    /\ UNCHANGED <<req, pc, localVars, hdrs, deadline, calls, metrics,
                   crashed, inflight>>
    /\ UNCHANGED <<lm, proc>>

NextHello ==
    \/ \E r \in 1 .. MaxHelloReqs : \E q \in HelloRequests : Arrive(r, q)
    \/ \E r \in ReqIds : HandlerDispatch(r)
    \/ \E r \in ReqIds : Arm(r)
    \/ \E r \in ReqIds : SetHeaders(r)
    \/ \E r \in ReqIds : StreamOpen(r)
    \/ \E r \in ReqIds : StreamWrite(r)
    \/ \E r \in ReqIds : StreamEnd(r)
    \/ \E r \in ReqIds : Send(r)
    \/ \E r \in ReqIds : Throw(r)
    \/ \E r \in ReqIds : ServeFile(r)
    \/ \E r \in ReqIds : Return(r)
    \/ \E r \in ReqIds : TimerElapse(r)
    \/ \E r \in ReqIds : onTimeout(r)

SpecHello == Init /\ [][NextHello]_vars

\* ============================================================ LoadMonitor
\* Outstanding requestLoad promises that are told apart.
MaxPending == 2

\* Raw global loads the listener may report: negative, 0, 0.5, 1, just
\* above 1, 1.5, 12.3456789, 50, 99.99996, 100, just above 100, 150.
RawLoads ==
    {0 - 5 * Unit, 0, Unit \div 2, Unit, Unit + 1, Unit + Unit \div 2,
     123456789, 50 * Unit, 999999600, 100 * Unit, 100 * Unit + 1, 150 * Unit}

\* std::cout's default precision: significant digits of operator<<(double)
precision == 6

RECURSIVE Pow10(_)
Pow10(n) == IF n = 0 THEN 1 ELSE 10 * Pow10(n - 1)

RECURSIVE IntDigits(_)
IntDigits(n) == IF n < 10 THEN 1 ELSE 1 + IntDigits(n \div 10)

\* The value of the last digit operator<< prints for g > 0.
Quantum(g) == Unit \div Pow10(precision - IntDigits(g \div Unit))

\* std::cout << global: the number printed, g rounded to `precision`
\* significant digits
Shown(g) == ((g + Quantum(g) \div 2) \div Quantum(g)) * Quantum(g)

\* run(), line 128: if (global > 100) global = 100
ClampNone(global) == global
Clamp(global) == IF global > 100 * Unit THEN 100 * Unit ELSE global

\* run(), lines 127-133: the value on the line "Global load is ...%"
Logged(g) == IF Clamp(g) > Unit THEN Shown(Clamp(g)) ELSE 0

\* run(), line 122: `continue` goes back to the test of the while loop
ContinueToIsBound == "bound"
Continue == "test"

\* A LoadMonitor after its constructor: shutdown_ is not initialised, the
\* endpoint may or may not be listening yet.
InitMonitor ==
    /\ InitRequests
    /\ \E flag, b \in BOOLEAN :
          lm = [NoMonitor EXCEPT !.owner = "constructed", !.shutdown_ = flag,
                                 !.bound = b]
    /\ proc = Serving

\* LoadMonitor::start
start ==
    /\ ~crashed
    /\ lm.owner = "constructed"
    /\ lm' = [lm EXCEPT !.shutdown_ = FALSE, !.pc = "test", !.owner = "started"]
    /\ UNCHANGED <<requestVars, crashed, proc>>

\* LoadMonitor::shutdown
shutdown ==
    /\ ~crashed
    /\ lm.owner \in {"constructed", "started"}
    /\ lm' = [lm EXCEPT !.shutdown_ = TRUE]
    /\ UNCHANGED <<requestVars, crashed, proc>>

\* LoadMonitor::~LoadMonitor, up to the join
Destroy ==
    /\ ~crashed
    /\ lm.owner \in {"constructed", "started"}
    /\ lm' = [lm EXCEPT !.shutdown_ = TRUE,
                        !.owner = IF lm.pc = "nothread" THEN "destroyed"
                                  ELSE "joining"]
    /\ UNCHANGED <<requestVars, crashed, proc>>

\* thread->join() returns once run() has returned
Join ==
    /\ ~crashed
    /\ lm.owner = "joining"
    /\ lm.pc = "exited"
    /\ lm' = [lm EXCEPT !.owner = "destroyed"]
    /\ UNCHANGED <<requestVars, crashed, proc>>

\* run(), line 121: while (!shutdown_); a passed test begins a tick
RunTest ==
    /\ ~crashed
    /\ lm.pc = "test"
    /\ lm' = IF lm.shutdown_
             THEN [lm EXCEPT !.pc = "exited"]
             ELSE [lm EXCEPT !.pc = "bound", !.ticked = TRUE, !.slept = 0]
    /\ UNCHANGED <<requestVars, crashed, proc>>

\* run(), line 122: if (!endpoint_->isBound()) continue
RunIsBound ==
    /\ ~crashed
    /\ lm.pc = "bound"
    /\ lm' = [lm EXCEPT !.pc = IF lm.bound THEN "request" ELSE Continue]
    /\ UNCHANGED <<requestVars, crashed, proc>>

\* run(), line 124: endpoint_->requestLoad(old).then(...)
RunRequest ==
    /\ ~crashed
    /\ lm.pc = "request"
    /\ lm' = [lm EXCEPT !.pc = "sleep",
                        !.pending = IF @ < MaxPending THEN @ + 1 ELSE @]
    /\ UNCHANGED <<requestVars, crashed, proc>>

\* run(), line 137: std::this_thread::sleep_for(interval)
RunSleep ==
    /\ ~crashed
    /\ lm.pc = "sleep"
    /\ lm' = [lm EXCEPT !.pc = "test", !.slept = interval]
    /\ UNCHANGED <<requestVars, crashed, proc>>

RunThread == RunTest \/ RunIsBound \/ RunRequest \/ RunSleep

\* The endpoint starts listening.
Bind ==
    /\ ~crashed
    /\ lm.owner # "none"
    /\ ~lm.bound
    /\ lm' = [lm EXCEPT !.bound = TRUE]
    /\ UNCHANGED <<requestVars, crashed, proc>>

\* run(), lines 124-135: the callback given to then(), run by the listener
\* with the snapshot. It writes `old` through a reference to run()'s local:
\* once run() has returned that write is undefined, and the process either
\* dies or goes on as if the local were still there.
LoadCallback(g) ==
    /\ ~crashed
    /\ lm.pending > 0
    /\ \/ /\ lm' = [lm EXCEPT !.pending = @ - 1, !.old = [global |-> g],
                              !.cout = <<Logged(g)>>]
          /\ crashed' = crashed
       \/ /\ lm.pc = "exited"
          /\ crashed' = TRUE
          /\ lm' = lm
    /\ UNCHANGED <<requestVars, proc>>

NextMonitor ==
    \/ start
    \/ shutdown
    \/ Destroy
    \/ Join
    \/ RunTest
    \/ RunIsBound
    \/ RunRequest
    \/ RunSleep
    \/ Bind
    \/ \E g \in RawLoads : LoadCallback(g)

\* The scheduler keeps running the monitor's thread while it can take a step.
SpecMonitor == InitMonitor /\ [][NextMonitor]_vars /\ WF_vars(RunThread)

\* ================================================================== main
\* Command-line arguments, each a sequence of characters: ports, thread
\* counts, and one that is not a number.
PortArgs == {<<"8", "0">>, <<"9", "0", "8", "0">>, <<"7", "0", "0", "0", "0">>}
ThrArgs == {<<"1">>, <<"2">>, <<"4">>, <<"1", "6">>}
BadArg == <<"x">>

\* argv[1 ..]: no argument, a port, a port and a thread count, and one
\* argument more.
Argvs ==
    {<< >>}
        \cup {<<p>> : p \in PortArgs \cup {BadArg}}
        \cup {<<p, t>> : p \in PortArgs, t \in ThrArgs \cup {BadArg}}
        \cup {<<p, t, <<"1">>>> : p \in PortArgs, t \in ThrArgs}

Digits == {"0", "1", "2", "3", "4", "5", "6", "7", "8", "9"}
DigitValue(c) == CHOOSE d \in 0 .. 9 : Digit(d) = c

\* std::stol: the number its leading digits spell
RECURSIVE stolFrom(_, _)
stolFrom(acc, a) ==
    IF a = << >> \/ Head(a) \notin Digits THEN acc
    ELSE stolFrom(10 * acc + DigitValue(Head(a)), Tail(a))

stol(a) == stolFrom(0, a)

\* std::stol throws std::invalid_argument when no digit leads the text
stolThrows(a) == a = << >> \/ Head(a) \notin Digits

\* Net::Port holds a uint16_t
Port(n) == n % 65536

\* main() entered with some arguments; nothing is constructed yet.
InitMain ==
    /\ InitRequests
    /\ lm = NoMonitor
    /\ \E a \in Argvs :
          proc = [pc |-> "entry", argv |-> a, port |-> 0, thr |-> 0,
                  workers |-> 0, cout |-> << >>]

\* argc counts the program name too
argc == Len(proc.argv) + 1

\* main(), lines 238-247: the defaults and the two arguments; an exception
\* leaving main ends the process
ParseArgs ==
    /\ ~crashed
    /\ proc.pc = "entry"
    /\ IF argc >= 2 /\ stolThrows(proc.argv[1])
       THEN crashed' = TRUE /\ proc' = proc
       ELSE IF argc = 3 /\ stolThrows(proc.argv[2])
       THEN crashed' = TRUE /\ proc' = proc
       ELSE /\ crashed' = crashed
            /\ proc' = [proc EXCEPT
                  !.pc = "parsed",
                  !.port = IF argc >= 2 THEN Port(stol(proc.argv[1]))
                           ELSE DefaultPort,
                  !.thr = IF argc = 3 THEN stol(proc.argv[2]) ELSE DefaultThr]
    /\ UNCHANGED <<requestVars, lm>>

\* main(), line 253: cout << "Using " << thr << " threads"
Banner ==
    /\ ~crashed
    /\ proc.pc = "parsed"
    /\ proc' = [proc EXCEPT !.pc = "banner",
                            !.cout = <<"Using", to_string(proc.thr), "threads">>]
    /\ UNCHANGED <<requestVars, crashed, lm>>

\* main(), line 257, StatsEndpoint::init: options().threads(1)
StatsInit ==
    /\ ~crashed
    /\ proc.pc = "banner"
    /\ proc' = [proc EXCEPT !.pc = "inited", !.workers = threads]
    /\ UNCHANGED <<requestVars, crashed, lm>>

\* main(), line 258, StatsEndpoint::start: setHandler, serve
StatsStart ==
    /\ ~crashed
    /\ proc.pc = "inited"
    /\ proc' = [proc EXCEPT !.pc = "serving"]
    /\ UNCHANGED <<requestVars, crashed, lm>>

NextMain ==
    \/ ParseArgs
    \/ Banner
    \/ StatsInit
    \/ StatsStart

SpecMain == InitMain /\ [][NextMain]_vars

\* ================================================================ claims
\* ------------------------------------------------------ Metrics Store
Posts(n) == {r \in ReqIds : req[r] = Rq("POST", <<"record", n>>)}
DonePosts(n) == {r \in Posts(n) : pc[r] = "done"}
Gets(n) == {r \in ReqIds : req[r] = Rq("GET", <<"value", n>>)}
Entries(n) == {i \in 1 .. Len(metrics) : metrics[i].name = n}
Value(n) == IF Entries(n) = {} THEN 0 ELSE metrics[find_if(metrics, n)].value
OneSend(code, body) == <<[op |-> "send", code |-> code, body |-> body]>>

\* No POST /record/n is between its find and its push_back or increment.
Settled(n) == \A r \in Posts(n) : pc[r] \in {"none", "queued", "done", "failed"}

\* A response written by doGetMetric for an existing name in this step
\* carries the number of POST /record/n requests completed so far.
GetReadsCount ==
    \A n \in Names : \A r \in Gets(n) :
        (wire'[r] # wire[r] /\ it[r] <= Len(metrics))
            => wire'[r] = OneSend(Ok, to_string(Cardinality(DonePosts(n))))

RecordAnswer(k) == IF k = 1 THEN OneSend(Created, "") ELSE OneSend(Ok, to_string(k))

\* C2: the k-th POST /record/x creates x with value 1 and answers 201 when
\* k = 1, and for k >= 2 adds exactly 1 and answers 200 with body k; after k
\* such requests GET /value/x answers 200 with body k.
C2_KthRecord ==
    /\ [](\A n \in Names :
            Settled(n) =>
                /\ \A k \in 1 .. Cardinality(DonePosts(n)) :
                      Cardinality({r \in DonePosts(n) : wire[r] = RecordAnswer(k)}) = 1
                /\ Value(n) = Cardinality(DonePosts(n)))
    /\ [][/\ \A n \in Names : Value(n)' \in {Value(n), Value(n) + 1}
          /\ \A n \in Names : \A r \in Posts(n) :
                (pc[r] # "done" /\ pc'[r] = "done")
                    => /\ wire'[r] = RecordAnswer(Value(n)')
                       /\ Value(n)' = Value(n) + 1
                       /\ Value(n)' = Cardinality(DonePosts(n)') 
          /\ \A n \in Names : \A r \in Gets(n) :
                (pc[r] # "done" /\ pc'[r] = "done")
                    => wire'[r] = OneSend(Ok, to_string(Cardinality(DonePosts(n))))]_vars

\* x was recorded twice, answered 201 and then 200 "2", and read back as "2".
C2_Witness ==
    /\ \E r \in DonePosts("x") : wire[r] = OneSend(Created, "")
    /\ \E r \in DonePosts("x") : wire[r] = OneSend(Ok, "2")
    /\ \E g \in Gets("x") : pc[g] = "done" /\ wire[g] = OneSend(Ok, "2")

\* C3: GET /value/n for a name never recorded answers 404 and nothing else:
\* once the 404 is sent the handler has returned, without another read of a
\* metric and without another send; after one POST /record/n it answers
\* 200 with body "1".
C3_NotFoundOnly ==
    /\ ~crashed
    /\ \A n \in Names : \A r \in Gets(n) :
          /\ (wire[r] # << >> /\ wire[r][1].code = Not_Found)
                => (pc[r] = "done" /\ log[r] = {})
          /\ (pc[r] = "done" /\ Cardinality(DonePosts(n)) = 1 /\ Settled(n)
                /\ wire[r] # OneSend(Not_Found, ""))
                => wire[r] = OneSend(Ok, "1")

\* C4: on every request at most one terminal write is executed, and no
\* handler issues a send or a stream call on a response that is already
\* Complete.
TerminalWrites(r) ==
    Cardinality({i \in 1 .. Len(wire[r]) : wire[r][i].op \in {"send", "stream"}})

SentTwice(r) ==
    \/ "Response has already been sent" \in log[r]
    \/ ExceptionPrinter("Response has already been sent") \in log[r]

C4_OneTerminalWrite ==
    \A r \in ReqIds : TerminalWrites(r) <= 1 /\ ~SentTwice(r)

\* ---------------------------------------------------------- MyHandler
Resource(r) == req[r].resource
PingChunked(r) == req[r] = Hq("GET", <<"ping">>, TRUE, "")

\* C5: whichever way the handler's completion and the timer's expiry
\* interleave, exactly one of them writes the response, the timeout fires
\* at most once, and onTimeout run against a response that is already
\* Complete is silent: no second response and no error reported.
C5_TimeoutRaceSilent ==
    \A r \in ReqIds :
        /\ calls[r] <= 1
        /\ TerminalWrites(r) <= 1
        /\ tpc[r] = Met("Complete") =>
              ExceptionPrinter("Response has already been sent") \notin log[r]

\* C6: when a handler arms a timeout and the response reaches Complete before
\* the timer elapsed, the timeout is Cancelled, and from then on it stays
\* Cancelled and onTimeout is not invoked for that request.
C6_CompleteCancels ==
    /\ [](\A r \in ReqIds :
            (rstate[r] = "Complete" /\ deadline[r] > 0 /\ calls[r] = 0)
                => tstate[r] = "Cancelled")
    /\ [][\A r \in ReqIds :
            tstate[r] = "Cancelled"
                => (tstate'[r] = "Cancelled" /\ calls'[r] = 0 /\ tpc'[r] = "idle")]_vars

\* GET /ping with the chunked flag armed 2s, streamed PO and NG, ended the
\* stream and returned with the timeout cancelled and never fired.
C6_Witness ==
    \E r \in ReqIds :
        /\ PingChunked(r) /\ pc[r] = "done" /\ deadline[r] = 2
        /\ rstate[r] = "Complete" /\ Len(wire[r]) = 4
        /\ tstate[r] = "Cancelled" /\ calls[r] = 0

TimedOut(r) == wire[r] = OneSend(Request_Timeout, "Timeout")

\* C7: a request to /timeout, with any method, arms 5s and sends nothing;
\* when the timer elapses onTimeout is invoked once and writes one response,
\* 408 with body "Timeout"; the response is then Complete and takes no
\* further write.
C7_TimeoutRoute ==
    /\ [](\A r \in ReqIds :
            Resource(r) = <<"timeout">> =>
                /\ pc[r] = "done" => deadline[r] = 5
                /\ calls[r] <= 1
                /\ calls[r] = 0 => (wire[r] = << >> /\ rstate[r] = "Pending")
                /\ tpc[r] = "call" => (wire[r] = << >> /\ tstate[r] = "Fired")
                /\ tpc[r] \notin {"idle", "call"} =>
                      /\ tpc[r] = Met("Pending")
                      /\ TimedOut(r)
                      /\ rstate[r] = "Complete"
                      /\ log[r] = {})
    /\ [][\A r \in ReqIds :
            (Resource(r) = <<"timeout">> /\ TimedOut(r))
                => (wire'[r] = wire[r] /\ rstate'[r] = "Complete"
                        /\ calls'[r] = 1)]_vars

\* A POST to /timeout was answered by the fallback, 408 "Timeout".
C7_Witness ==
    \E r \in ReqIds :
        /\ req[r] = Hq("POST", <<"timeout">>, FALSE, "")
        /\ pc[r] = "done" /\ tstate[r] = "Fired" /\ calls[r] = 1
        /\ TimedOut(r) /\ rstate[r] = "Complete"

\* The requests whose handler never calls timeout.arm, as the claim lists them.
NeverArms(q) ==
    \/ q.resource \in {<<"echo">>, <<"exception">>, <<"static">>}
    \/ q.resource = <<"ping">> /\ q.method # "GET"
    \/ q.resource \notin {<<"ping">>, <<"echo">>, <<"exception">>,
                          <<"timeout">>, <<"static">>}

\* C8: a request whose handler never arms a timeout has no timer: its
\* timeout stays Unarmed and onTimeout is never invoked for it.
C8_UnarmedNeverFires ==
    \A r \in ReqIds :
        (pc[r] # "none" /\ NeverArms(req[r]))
            => /\ tstate[r] = "Unarmed"
               /\ deadline[r] = 0
               /\ calls[r] = 0
               /\ tpc[r] = "idle"

\* A POST /ping and a GET to an unlisted resource were both handled and
\* stay Pending with no timer.
C8_Witness ==
    \E r, o \in ReqIds :
        /\ req[r] = Hq("POST", <<"ping">>, TRUE, "") /\ pc[r] = "done"
        /\ req[o] = Hq("GET", <<"other">>, FALSE, "") /\ pc[o] = "done"
        /\ tstate[r] = "Unarmed" /\ tstate[o] = "Unarmed"
        /\ rstate[r] = "Pending" /\ rstate[o] = "Pending"

\* What the rest of the system holds about the requests other than r.
Others(r) ==
    [o \in ReqIds \ {r} |->
        <<req[o], pc[o], ip[o], rstate[o], wire[o], hdrs[o], tstate[o],
          deadline[o], tpc[o], calls[o], log[o]>>]

\* C9: a request to /exception makes the handler raise a failure; the
\* failure stops at the dispatch boundary: the process goes on, the worker
\* is free for the next request, and the step changes neither the Metrics
\* Store nor any other request's response and timeout.
C9_FailureContained ==
    /\ [](\A r \in ReqIds :
            Resource(r) = <<"exception">> =>
                /\ ~crashed
                /\ pc[r] # "done"
                /\ pc[r] = "failed" =>
                      /\ "Exception thrown in the handler" \in log[r]
                      /\ tstate[r] = "Unarmed"
                      /\ \A o \in ReqIds :
                            (pc[o] = "queued" /\ Running = {})
                                => ENABLED HandlerDispatch(o))
    /\ [][\A r \in ReqIds :
            (Resource(r) = <<"exception">> /\ pc[r] = "run")
                => (pc'[r] = "failed" =>
                        /\ metrics' = metrics
                        /\ crashed' = crashed
                        /\ Others(r)' = Others(r))]_vars

\* A request to /exception failed and a POST /echo dispatched after the
\* failure was answered 200 with its body.
C9_Witness ==
    \E r, o \in ReqIds :
        /\ Resource(r) = <<"exception">> /\ pc[r] = "failed"
        /\ r < o /\ req[o] = Hq("POST", <<"echo">>, FALSE, "hi")
        /\ pc[o] = "done" /\ wire[o] = OneSend(Ok, "hi")

PongWire ==
    <<[op |-> "stream", code |-> Ok, body |-> ""],
      [op |-> "write", code |-> 0, body |-> "PO"],
      [op |-> "write", code |-> 0, body |-> "NG"],
      [op |-> "ends", code |-> 0, body |-> ""]>>

IsPrefix(s, t) == Len(s) <= Len(t) /\ s = SubSeq(t, 1, Len(s))

RECURSIVE Body(_)
Body(w) ==
    IF w = << >> THEN ""
    ELSE (IF Head(w).op = "write" THEN Head(w).body ELSE "") \o Body(Tail(w))

Writes(w) == Cardinality({i \in 1 .. Len(w) : w[i].op = "write"})

\* C11 as stated: every GET /ping with the chunked flag sets both headers
\* while Pending, opens the stream with 200, writes "PO" then "NG" and ends
\* the stream; a handled request carries the body "PONG" in two writes.
C11_ChunkedOrder ==
    \A r \in ReqIds :
        PingChunked(r) =>
            /\ IsPrefix(wire[r], PongWire)
            /\ wire[r] # << >> => hdrs[r] = {"Server", "Content-Type"}
            /\ pc[r] \in Terminal =>
                  /\ wire[r] = PongWire /\ rstate[r] = "Complete"
                  /\ Body(wire[r]) = "PONG" /\ Writes(wire[r]) >= 2

\* C11, amended: the same, unless the 2s timeout fired and its fallback
\* completed the response before the stream was opened; then the response
\* is the one 408 and the handler fails at its stream call. No header is
\* set once anything was written, and nothing is written after Complete.
C11_ChunkedOrderUnlessTimedOut ==
    /\ [](\A r \in ReqIds :
            PingChunked(r) =>
                /\ IsPrefix(wire[r], PongWire) \/ (TimedOut(r) /\ tstate[r] = "Fired")
                /\ (wire[r] # << >> /\ ~TimedOut(r))
                      => hdrs[r] = {"Server", "Content-Type"}
                /\ pc[r] = "done" =>
                      /\ wire[r] = PongWire /\ rstate[r] = "Complete"
                      /\ Body(wire[r]) = "PONG" /\ Writes(wire[r]) >= 2
                /\ pc[r] = "failed" => (TimedOut(r) /\ ip[r] = 3))
    /\ [][\A r \in ReqIds :
            PingChunked(r) =>
                /\ hdrs'[r] # hdrs[r] => (wire[r] = << >> /\ rstate[r] = "Pending")
                /\ rstate[r] = "Complete" => wire'[r] = wire[r]]_vars

\* GET /ping with the chunked flag returned with both headers set and
\* stream, "PO", "NG", end on the wire.
C11_Witness ==
    \E r \in ReqIds :
        /\ PingChunked(r) /\ pc[r] = "done" /\ wire[r] = PongWire
        /\ hdrs[r] = {"Server", "Content-Type"} /\ Body(wire[r]) = "PONG"

PingGet(r) == Resource(r) = <<"ping">> /\ req[r].method = "GET"
PingPlain(r) == req[r] = Hq("GET", <<"ping">>, FALSE, "")

\* C14: every GET /ping arms 2s as the handler's first call, before the
\* query is looked at; without the chunked flag the handler writes nothing
\* and returns with the timeout Armed, and the only response the request
\* ever gets is the fallback's one 408 "Timeout".
C14_PlainPingTimesOut ==
    /\ [](\A r \in ReqIds :
            /\ PingGet(r) =>
                  /\ (pc[r] = "run" /\ ip[r] = 1) =>
                        (tstate[r] = "Unarmed" /\ wire[r] = << >> /\ hdrs[r] = {})
                  /\ ((pc[r] = "run" /\ ip[r] > 1) \/ pc[r] \in Terminal) =>
                        (deadline[r] = 2 /\ tstate[r] # "Unarmed")
            /\ PingPlain(r) =>
                  /\ pc[r] # "failed" /\ hdrs[r] = {} /\ log[r] = {}
                  /\ calls[r] <= 1
                  /\ calls[r] = 0 => (wire[r] = << >> /\ rstate[r] = "Pending")
                  /\ (pc[r] = "done" /\ calls[r] = 0) =>
                        (tstate[r] = "Armed" /\ ~crashed)
                  /\ tpc[r] = "call" => (wire[r] = << >> /\ tstate[r] = "Fired")
                  /\ tpc[r] \notin {"idle", "call"} =>
                        (tpc[r] = Met("Pending") /\ TimedOut(r)
                            /\ rstate[r] = "Complete"))
    /\ [][\A r \in ReqIds :
            PingPlain(r) =>
                /\ wire'[r] # wire[r] =>
                      (wire[r] = << >> /\ TimedOut(r)' /\ tpc[r] = "call")
                /\ deadline[r] = 2 => deadline'[r] = 2]_vars

\* A GET /ping without the flag returned having written nothing, and was
\* then answered by the fallback after its 2s deadline.
C14_Witness ==
    \E r \in ReqIds :
        /\ PingPlain(r) /\ pc[r] = "done" /\ deadline[r] = 2
        /\ tstate[r] = "Fired" /\ calls[r] = 1 /\ TimedOut(r)

\* The requests for which onRequest neither writes nor arms, as the claim
\* lists them.
Silent(q) ==
    \/ q.resource = <<"echo">> /\ q.method # "POST"
    \/ q.resource = <<"ping">> /\ q.method # "GET"
    \/ q.resource = <<"static">> /\ q.method # "GET"
    \/ q.resource \notin {<<"ping">>, <<"echo">>, <<"exception">>,
                          <<"timeout">>, <<"static">>}

\* C19: a request for which onRequest neither writes nor arms is handled
\* without failure and stays Pending for good: nothing is ever written for
\* it, by the handler or by the fallback, and once the handler returned
\* nothing about it changes.
C19_SilentStaysPending ==
    /\ [](\A r \in ReqIds :
            (pc[r] # "none" /\ Silent(req[r])) =>
                /\ rstate[r] = "Pending" /\ wire[r] = << >> /\ hdrs[r] = {}
                /\ pc[r] \in {"queued", "run", "done"}
                /\ tstate[r] = "Unarmed" /\ log[r] = {})
    /\ [][\A r \in ReqIds :
            (pc[r] = "done" /\ Silent(req[r])) =>
                <<req[r], pc[r], rstate[r], wire[r], tstate[r], tpc[r]>>'
                    = <<req[r], "done", "Pending", << >>, "Unarmed", "idle">>]_vars

\* A GET /echo and a POST /static were handled and are left Pending with
\* nothing written.
C19_Witness ==
    \E r, o \in ReqIds :
        /\ req[r] = Hq("GET", <<"echo">>, FALSE, "hi") /\ pc[r] = "done"
        /\ req[o] = Hq("POST", <<"static">>, FALSE, "") /\ pc[o] = "done"
        /\ rstate[r] = "Pending" /\ rstate[o] = "Pending"
        /\ wire[r] = << >> /\ wire[o] = << >>

\* C15: in every state of the Metrics Store no two metrics have the same
\* name and every value is at least 1; no step removes a metric and no
\* step lowers a metric's value.
C15_StoreInvariants ==
    /\ [](/\ \A n \in Names : Cardinality(Entries(n)) <= 1
          /\ \A i \in 1 .. Len(metrics) :
                metrics[i].name \in Names /\ metrics[i].value >= 1)
    /\ [][/\ Len(metrics') >= Len(metrics)
          /\ \A i \in 1 .. Len(metrics) :
                /\ metrics'[i].name = metrics[i].name
                /\ metrics'[i].value >= metrics[i].value]_vars

\* A metric was created and then incremented, and a GET has been answered.
C15_Witness ==
    /\ \E i \in 1 .. Len(metrics) : metrics[i].value >= 2
    /\ \E r \in ReqIds : \E n \in Names : r \in Gets(n) /\ pc[r] = "done"

RecordPcs == {"rec_find", "rec_push", "rec_incr", "rec_write"}
GetPcs == {"get_find", "get_test", "get_send"}
IsRecord(q) == q.method = "POST" /\ Len(q.resource) = 2 /\ q.resource[1] = "record"
IsValue(q) == q.method = "GET" /\ Len(q.resource) = 2 /\ q.resource[1] = "value"

\* C16: only POST /record/<seg> runs doRecordMetric and only GET
\* /value/<seg> runs doGetMetric, looking up exactly the text of <seg>;
\* every other request ends unmatched with nothing written and the store
\* untouched; a step of a POST /record/a changes the metric named a only.
C16_RoutesAndFrame ==
    /\ [](\A r \in ReqIds :
            /\ pc[r] \in RecordPcs => IsRecord(req[r])
            /\ pc[r] \in GetPcs => IsValue(req[r])
            /\ (pc[r] \notin {"none", "queued"}
                    /\ ~IsRecord(req[r]) /\ ~IsValue(req[r]))
                  => (pc[r] = "unmatched" /\ wire[r] = << >>)
            /\ pc[r] = "unmatched" => (~IsRecord(req[r]) /\ ~IsValue(req[r]))
            /\ (pc[r] \in {"rec_push", "rec_incr", "rec_write", "get_test", "get_send"}
                    /\ it[r] <= Len(metrics))
                  => metrics[it[r]].name = req[r].resource[2])
    /\ [][\A r \in ReqIds :
            /\ (pc[r] # "unmatched" /\ pc'[r] = "unmatched") => metrics' = metrics
            /\ (pc[r] \in RecordPcs /\ pc'[r] # pc[r]) =>
                  /\ \A m \in Names \ {req[r].resource[2]} :
                        Entries(m)' = Entries(m) /\ Value(m)' = Value(m)
                  /\ \A i \in 1 .. Len(metrics) :
                        metrics'[i] # metrics[i]
                            => metrics[i].name = req[r].resource[2]
                  /\ Len(metrics') > Len(metrics) =>
                        metrics'[Len(metrics')].name = req[r].resource[2]]_vars

\* With y stored, a POST /record/x was handled and created x, while a GET
\* on /record/x and a POST on /value/x ended unmatched.
C16_Witness ==
    \E r, g \in ReqIds :
        /\ req[r] = Rq("POST", <<"record", "x">>) /\ pc[r] = "done"
        /\ req[g] \in {Rq("GET", <<"record", "x">>), Rq("POST", <<"value", "x">>),
                       Rq("POST", <<"record">>)}
        /\ pc[g] = "unmatched"
        /\ Value("x") = 1 /\ Value("y") >= 1

\* C18: no step of a GET /value/<name>, for a stored name or an unknown
\* one, changes the Metrics Store: the sequence of metrics, names and
\* values, is the same after the step as before it.
C18_GetReadOnly ==
    [][\A r \in ReqIds :
          (IsValue(req[r]) /\ <<pc[r], wire[r], it[r]>>' # <<pc[r], wire[r], it[r]>>)
              => (metrics' = metrics /\ pc'[r] \notin RecordPcs)]_vars

\* With a metric stored, one GET was answered for the stored name and
\* another got its 404 for an unknown name.
C18_Witness ==
    \E r, o \in ReqIds : \E n, m \in Names :
        /\ r \in Gets(n) /\ pc[r] = "done" /\ Value(n) >= 1
        /\ wire[r] = OneSend(Ok, to_string(Value(n)))
        /\ o \in Gets(m) /\ Entries(m) = {} /\ pc[o] = "get_send"
        /\ wire[o] = OneSend(Not_Found, "")

\* C12: once shutdown_ is set after start(), by shutdown() or by the
\* destructor, run() gets to its end whether or not the endpoint is or
\* becomes bound, so the destructor's join can return; the flag stays set,
\* and after run() has seen it set no iteration begins and no snapshot is
\* requested.
C12_ShutdownStopsRun ==
    /\ []((lm.owner \in {"started", "joining"} /\ lm.shutdown_)
              => <>(lm.pc = "exited"))
    /\ []((lm.owner = "joining" /\ lm.pc = "exited" /\ ~crashed) => ENABLED Join)
    /\ [](lm.owner = "destroyed" => lm.pc \in {"nothread", "exited"})
    /\ [][/\ (lm.pc # "nothread" /\ lm.shutdown_) => lm'.shutdown_
          /\ (lm.pc = "test" /\ lm.shutdown_ /\ lm'.pc # "test")
                => lm'.pc = "exited"
          /\ lm.pc = "exited"
                => (lm'.pc = "exited" /\ lm'.pending <= lm.pending
                        /\ lm'.ticked = lm.ticked)]_vars

\* The monitor was started and destroyed, its thread joined, and the
\* endpoint never became bound.
C12_Witness ==
    /\ lm.owner = "destroyed" /\ lm.pc = "exited" /\ lm.ticked
    /\ ~lm.bound /\ lm.pending = 0

\* C13: a tick at which the endpoint is not bound requests no snapshot and
\* logs nothing, and every tick after the first begins only after a full
\* interval was slept since the tick before it began.
C13_SkippedTickKeepsInterval ==
    [][/\ (lm.pc = "bound" /\ ~lm.bound /\ lm'.pc # "bound")
             => (lm'.pending = lm.pending /\ lm'.cout = lm.cout
                    /\ lm'.pc = "test")
       /\ (lm.pc = "test" /\ lm'.pc = "bound" /\ lm.ticked)
             => lm.slept = interval]_vars

\* What the claim says is logged for a raw load g.
Stated(g) == IF g <= Unit THEN 0 ELSE IF g > 100 * Unit THEN 100 * Unit ELSE g

\* C17 as stated: the logged value is 0 for g <= 1, 100 for g > 100 and g
\* itself in between; it lies in 0..100 and never in (0, 1].
C17_LoggedValue ==
    lm.cout # << >> =>
        /\ lm.cout[1] = Stated(lm.old.global)
        /\ lm.cout[1] \in 0 .. 100 * Unit
        /\ ~(0 < lm.cout[1] /\ lm.cout[1] <= Unit)

\* C17, amended: the logged value is 0 for g <= 1, 100 for g > 100 and, in
\* between, g rounded to six significant digits; it lies in 0..100 and
\* never strictly between 0 and 1, and it is 1 only for a g above 1 that
\* rounds to 1.
C17_LoggedValueRounded ==
    lm.cout # << >> =>
        LET g == lm.old.global
            out == lm.cout[1]
        IN  /\ g <= Unit => out = 0
            /\ g > 100 * Unit => out = 100 * Unit
            /\ (Unit < g /\ g <= 100 * Unit) =>
                  /\ out % Quantum(g) = 0
                  /\ 2 * (out - g) <= Quantum(g)
                  /\ 2 * (g - out) <= Quantum(g)
            /\ out \in 0 .. 100 * Unit
            /\ ~(0 < out /\ out < Unit)
            /\ out = Unit => (g > Unit /\ 2 * (g - Unit) <= Quantum(g))

\* A load just above 1 was logged as 1.
C17_Witness ==
    /\ lm.cout = <<Unit>>
    /\ lm.old.global = Unit + 1

\* C20: the port is the first argument (9080 without one), the thread-pool
\* size the second (2 without one), and the endpoint serves with as many
\* workers as that thread-pool size.
C20_ArgsDecideWorkers ==
    proc.pc = "serving" =>
        /\ proc.port = IF Len(proc.argv) >= 1 THEN Port(stol(proc.argv[1]))
                       ELSE DefaultPort
        /\ proc.thr = IF Len(proc.argv) >= 2 THEN stol(proc.argv[2])
                      ELSE DefaultThr
        /\ proc.workers = proc.thr

====
